---- MODULE Spec2Model ----
(***************************************************************************)
(* Model of src/main.cpp: the gaze-recorder session state machine (main   *)
(* thread, one step per statement group of the main loop) and the capture *)
(* loop thread it spawns.                                                  *)
(*                                                                         *)
(* Representation choices:                                                 *)
(*  - time is in SDL ticks (ms): `now` is SDL_GetTicks().  Runs are        *)
(*    bounded by MaxTime, far below the 2^32 ms at which the Uint32 tick  *)
(*    counter wraps, so the Uint32 difference is the plain difference.    *)
(*  - the double `t = 0.001 * ticks` is kept in ms (exact thousandths), so *)
(*    `t < 3` reads `t < Sec(3)`.                                          *)
(*  - screen coordinates are exact rationals in units of 1/600000, so       *)
(*    0.01 is P01 and 0.99 is P99 and every lerp below divides exactly.    *)
(*  - `state` is a plain (non-atomic) variable read by the capture thread  *)
(*    through a pointer: each thread has `seen`, the value of `state`      *)
(*    visible to it, which follows a write of the main thread at some      *)
(*    later step (Visible).                                                *)
(***************************************************************************)
EXTENDS Integers, Naturals, Sequences, FiniteSets, TLC

\* ---------------------------------------------------------------- bounds
MaxQueue == 2
MaxAcquire == 2
MaxTime == 10001
Window == 2

\* ----------------------------------------------------- program constants
STATE_PRE == 0
STATE_RECORDING == 1
STATE_DONE == 2
STATE_QUIT == 3
States == {STATE_PRE, STATE_RECORDING, STATE_DONE, STATE_QUIT}

SDL_KEYUP == "SDL_KEYUP"
SDL_QUIT == "SDL_QUIT"
SDL_OTHER == "SDL_OTHER"
EventTypes == {SDL_KEYUP, SDL_QUIT, SDL_OTHER}

PXC_STATUS_NO_ERROR == 0
\* one fatal status (< 0), success, one warning (> 0)
PxcStatuses == {-1, PXC_STATUS_NO_ERROR, 1}

\* coordinates 0.01 and 0.99, in units of 1/600000
P01 == 6000
P99 == 594000

\* seconds of the double t, in ms
Sec(s) == 1000 * s

VARIABLES
    state,          \* enum State state
    t0,             \* Uint32 t0
    record_thread,  \* std::thread record_thread: 0 = not joinable, else index in threads
    threads,        \* the capture threads ever spawned: records pc, seen, obs, ret, box
    queue,          \* SDL's pending event queue
    mainpc,         \* position of the main thread
    x, y, t,        \* the loop body's locals (-1 outside their scope)
    frame,          \* what the last SDL_RenderPresent showed
    now,            \* the ms tick counter SDL_GetTicks() reads
    exitcode,       \* "running", "exit0" (return 0) or "terminate" (std::terminate)
    nAcq, nRel,     \* AcquireFrame / ReleaseFrame calls made on g_sm
    late,           \* AcquireFrame calls started while state # STATE_RECORDING
    hist,           \* the values state has taken, in order
    start,          \* `now` when t0 was taken (-1 before)
    script          \* progress of the input script key-up, wait 10 s, key-up, quit

vars == <<state, t0, record_thread, threads, queue, mainpc, x, y, t, frame, now,
          exitcode, nAcq, nRel, late, hist, start, script>>

mainVars == <<state, t0, record_thread, mainpc, x, y, t, frame, exitcode, hist, start>>
thrVars == <<threads, nAcq, nRel, late>>
envVars == <<queue, now, script>>

\* ---------------------------------------------------------------- helpers
SDL_GetTicks == now

lerp(tt, x0, x1, tt0, tt1) == x0 + ((tt - tt0) * (x1 - x0)) \div (tt1 - tt0)

Alive(th) == th.pc \notin {"done"}
NumAlive == Cardinality({i \in DOMAIN threads : Alive(threads[i])})

NoFrame == [st |-> -1, x |-> -1, y |-> -1, t |-> -1, alive |-> 0]

Init ==
    /\ state = STATE_PRE
    /\ t0 = 0
    /\ record_thread = 0
    /\ threads = <<>>
    /\ queue = <<>>
    /\ mainpc = "loop"
    /\ x = -1 /\ y = -1 /\ t = -1
    /\ frame = NoFrame
    /\ now = 0
    /\ exitcode = "running"
    /\ nAcq = 0 /\ nRel = 0 /\ late = 0
    /\ hist = <<STATE_PRE>>
    /\ start = -1
    /\ script = 0

\* ------------------------------------------------------------ environment
\* the instants at which the model looks at the clock
TimePoints == {0, 1, Sec(10) - 1, Sec(10), MaxTime}

\* where the pushes so far stand in the script [key-up, wait 10 s, key-up, quit];
\* the wait is over once 10 s of recording have passed, the main loop having
\* rendered Recording frames meanwhile
ScriptNext(ev) ==
    IF script = 0 /\ ev = SDL_KEYUP THEN 1
    ELSE IF /\ script = 1 /\ ev = SDL_KEYUP
            /\ start >= 0 /\ now - start >= Sec(10)
            /\ frame.st \in {STATE_RECORDING, STATE_DONE} THEN 2
    ELSE IF script = 2 /\ ev = SDL_QUIT THEN 3
    ELSE -1

\* the user or the window system posts an event
PushEvent(ev) ==
    /\ exitcode = "running"
    /\ Len(queue) < MaxQueue
    /\ queue' = Append(queue, ev)
    /\ script' = ScriptNext(ev)
    /\ UNCHANGED now
    /\ UNCHANGED mainVars
    /\ UNCHANGED thrVars

\* time passes
Tick(n) ==
    /\ exitcode = "running"
    /\ n > now
    /\ now' = n
    /\ UNCHANGED <<queue, script>>
    /\ UNCHANGED mainVars
    /\ UNCHANGED thrVars

\* ------------------------------------------------------------ main thread
SetState(s) ==
    /\ state' = s
    /\ hist' = Append(hist, s)

\* while (state != STATE_QUIT)
LoopTest ==
    /\ mainpc = "loop"
    /\ mainpc' = IF state # STATE_QUIT THEN "poll" ELSE "return"
    /\ UNCHANGED <<state, t0, record_thread, x, y, t, frame, exitcode, hist, start>>
    /\ UNCHANGED thrVars
    /\ UNCHANGED envVars

\* SDL_PollEvent returns 0: the event loop ends
PollNone ==
    /\ mainpc = "poll"
    /\ queue = <<>>
    /\ mainpc' = "update"
    /\ UNCHANGED <<state, t0, record_thread, x, y, t, frame, exitcode, hist, start>>
    /\ UNCHANGED thrVars
    /\ UNCHANGED envVars

\* SDL_KEYUP while STATE_PRE: state and t0 are written, the spawn follows
KeyUpPre ==
    /\ mainpc = "poll"
    /\ queue # <<>> /\ Head(queue) = SDL_KEYUP
    /\ state = STATE_PRE
    /\ queue' = Tail(queue)
    /\ SetState(STATE_RECORDING)
    /\ t0' = SDL_GetTicks
    /\ start' = now
    /\ mainpc' = "spawn"
    /\ UNCHANGED <<record_thread, x, y, t, frame, exitcode>>
    /\ UNCHANGED thrVars
    /\ UNCHANGED <<now, script>>

\* (mutant of NewThread) the thread is started before state is written: it
\* starts with the value state had on entry to the key-up branch
NewThreadBeforeWrite ==
    [pc |-> "check", seen |-> STATE_PRE, obs |-> -1, ret |-> 0, box |-> "none"]

\* the thread as std::thread's constructor starts it: at its first statement,
\* seeing every write made before the constructor call
NewThread == [pc |-> "check", seen |-> state, obs |-> -1, ret |-> 0, box |-> "none"]

\* record_thread = std::move(std::thread(...)): the new thread is constructed
\* (it starts running), then move-assigned; move-assignment to a joinable
\* std::thread calls std::terminate
Spawn ==
    /\ mainpc = "spawn"
    /\ threads' = Append(threads, NewThread)
    /\ IF record_thread # 0
       THEN /\ exitcode' = "terminate"
            /\ mainpc' = "done"
            /\ UNCHANGED record_thread
       ELSE /\ record_thread' = Len(threads) + 1
            /\ mainpc' = "poll"
            /\ UNCHANGED exitcode
    /\ UNCHANGED <<state, t0, x, y, t, frame, hist, start>>
    /\ UNCHANGED <<nAcq, nRel, late>>
    /\ UNCHANGED envVars

\* (mutant of KeyUpDone) a key-up while STATE_DONE starts over instead of quitting
KeyUpDoneRestart ==
    /\ mainpc = "poll"
    /\ queue # <<>> /\ Head(queue) = SDL_KEYUP
    /\ state = STATE_DONE
    /\ queue' = Tail(queue)
    /\ SetState(STATE_PRE)
    /\ mainpc' = "poll"
    /\ UNCHANGED <<t0, record_thread, x, y, t, frame, exitcode, start>>
    /\ UNCHANGED thrVars
    /\ UNCHANGED <<now, script>>

\* SDL_KEYUP while STATE_DONE: quit and break out of the event loop
KeyUpDone ==
    /\ mainpc = "poll"
    /\ queue # <<>> /\ Head(queue) = SDL_KEYUP
    /\ state = STATE_DONE
    /\ queue' = Tail(queue)
    /\ SetState(STATE_QUIT)
    /\ mainpc' = "update"
    /\ UNCHANGED <<t0, record_thread, x, y, t, frame, exitcode, start>>
    /\ UNCHANGED thrVars
    /\ UNCHANGED <<now, script>>

\* (mutant of KeyUpIgnored) the spawn is not guarded by state == STATE_PRE: a
\* key-up while recording spawns again
KeyUpRespawn ==
    /\ mainpc = "poll"
    /\ queue # <<>> /\ Head(queue) = SDL_KEYUP
    /\ state \notin {STATE_PRE, STATE_DONE}
    /\ queue' = Tail(queue)
    /\ mainpc' = "spawn"
    /\ UNCHANGED <<state, t0, record_thread, x, y, t, frame, exitcode, hist, start>>
    /\ UNCHANGED thrVars
    /\ UNCHANGED <<now, script>>

\* (mutant of KeyUpIgnored) t0 = SDL_GetTicks() stands outside the test of
\* state: every key-up takes the time anew
KeyUpIgnoredRestamp ==
    /\ mainpc = "poll"
    /\ queue # <<>> /\ Head(queue) = SDL_KEYUP
    /\ state \notin {STATE_PRE, STATE_DONE}
    /\ queue' = Tail(queue)
    /\ t0' = SDL_GetTicks
    /\ start' = now
    /\ mainpc' = "poll"
    /\ UNCHANGED <<state, record_thread, x, y, t, frame, exitcode, hist>>
    /\ UNCHANGED thrVars
    /\ UNCHANGED <<now, script>>

\* SDL_KEYUP in any other state: neither branch is taken
KeyUpIgnored ==
    /\ mainpc = "poll"
    /\ queue # <<>> /\ Head(queue) = SDL_KEYUP
    /\ state \notin {STATE_PRE, STATE_DONE}
    /\ queue' = Tail(queue)
    /\ mainpc' = "poll"
    /\ UNCHANGED <<state, t0, record_thread, x, y, t, frame, exitcode, hist, start>>
    /\ UNCHANGED thrVars
    /\ UNCHANGED <<now, script>>

\* (mutant of QuitEvent) the break is missing: the event loop goes on
QuitEventNoBreak ==
    /\ mainpc = "poll"
    /\ queue # <<>> /\ Head(queue) = SDL_QUIT
    /\ queue' = Tail(queue)
    /\ SetState(STATE_QUIT)
    /\ mainpc' = "poll"
    /\ UNCHANGED <<t0, record_thread, x, y, t, frame, exitcode, start>>
    /\ UNCHANGED thrVars
    /\ UNCHANGED <<now, script>>

\* SDL_QUIT in any state: quit and break out of the event loop
QuitEvent ==
    /\ mainpc = "poll"
    /\ queue # <<>> /\ Head(queue) = SDL_QUIT
    /\ queue' = Tail(queue)
    /\ SetState(STATE_QUIT)
    /\ mainpc' = "update"
    /\ UNCHANGED <<t0, record_thread, x, y, t, frame, exitcode, start>>
    /\ UNCHANGED thrVars
    /\ UNCHANGED <<now, script>>

\* (mutant of OtherEvent) an event of another type ends the event loop
OtherEventBreaks ==
    /\ mainpc = "poll"
    /\ queue # <<>> /\ Head(queue) \notin {SDL_KEYUP, SDL_QUIT}
    /\ queue' = Tail(queue)
    /\ mainpc' = "update"
    /\ UNCHANGED <<state, t0, record_thread, x, y, t, frame, exitcode, hist, start>>
    /\ UNCHANGED thrVars
    /\ UNCHANGED <<now, script>>

\* any other event is ignored
OtherEvent ==
    /\ mainpc = "poll"
    /\ queue # <<>> /\ Head(queue) \notin {SDL_KEYUP, SDL_QUIT}
    /\ queue' = Tail(queue)
    /\ mainpc' = "poll"
    /\ UNCHANGED <<state, t0, record_thread, x, y, t, frame, exitcode, hist, start>>
    /\ UNCHANGED thrVars
    /\ UNCHANGED <<now, script>>

\* double t = 0.001*(SDL_GetTicks() - t0), in ms
Elapsed == SDL_GetTicks - t0

\* (mutant of Choreography) the last segment is closed at 10 s: t <= 10
ChoreographyInclusive(tt) ==
    IF 0 <= tt /\ tt < Sec(3)
    THEN [x |-> lerp(tt, P01, P99, Sec(0), Sec(3)), y |-> P01, done |-> FALSE]
    ELSE IF Sec(3) <= tt /\ tt < Sec(5)
    THEN [x |-> P01, y |-> lerp(tt, P01, P99, Sec(3), Sec(5)), done |-> FALSE]
    ELSE IF Sec(5) <= tt /\ tt < Sec(8)
    THEN [x |-> lerp(tt, P99, P01, Sec(5), Sec(8)), y |-> P01, done |-> FALSE]
    ELSE IF Sec(8) <= tt /\ tt <= Sec(10)
    THEN [x |-> P01, y |-> lerp(tt, P99, P01, Sec(8), Sec(10)), done |-> FALSE]
    ELSE [x |-> P01, y |-> P01, done |-> TRUE]

\* the if/else chain on t: the position it leaves in x, y (both start at 0.01)
\* and whether its else branch (switch to done) is taken
Choreography(tt) ==
    IF 0 <= tt /\ tt < Sec(3)
    THEN [x |-> lerp(tt, P01, P99, Sec(0), Sec(3)), y |-> P01, done |-> FALSE]
    ELSE IF Sec(3) <= tt /\ tt < Sec(5)
    THEN [x |-> P01, y |-> lerp(tt, P01, P99, Sec(3), Sec(5)), done |-> FALSE]
    ELSE IF Sec(5) <= tt /\ tt < Sec(8)
    THEN [x |-> lerp(tt, P99, P01, Sec(5), Sec(8)), y |-> P01, done |-> FALSE]
    ELSE IF Sec(8) <= tt /\ tt < Sec(10)
    THEN [x |-> P01, y |-> lerp(tt, P99, P01, Sec(8), Sec(10)), done |-> FALSE]
    ELSE [x |-> P01, y |-> P01, done |-> TRUE]

\* (mutant of Update) x and y live across frames: a coordinate the current
\* segment does not assign keeps the value of the frame before
UpdateCarriesPosition ==
    /\ mainpc = "update"
    /\ IF state = STATE_RECORDING
       THEN LET c == Choreography(Elapsed)
                kept == frame.st = STATE_RECORDING /\ ~c.done
            IN
            /\ x' = IF kept /\ c.x = P01 THEN frame.x ELSE c.x
            /\ y' = IF kept /\ c.y = P01 THEN frame.y ELSE c.y
            /\ t' = Elapsed
            /\ IF c.done
               THEN SetState(STATE_DONE) /\ mainpc' = "join"
               ELSE UNCHANGED <<state, hist>> /\ mainpc' = "render"
       ELSE /\ x' = P01 /\ y' = P01 /\ t' = -1
            /\ mainpc' = "render"
            /\ UNCHANGED <<state, hist>>
    /\ UNCHANGED <<t0, record_thread, frame, exitcode, start>>
    /\ UNCHANGED thrVars
    /\ UNCHANGED envVars

\* the position update of one frame; on the else branch state = STATE_DONE is
\* written and record_thread.join() is the next statement
Update ==
    /\ mainpc = "update"
    /\ IF state = STATE_RECORDING
       THEN LET c == Choreography(Elapsed) IN
            /\ x' = c.x /\ y' = c.y /\ t' = Elapsed
            /\ IF c.done
               THEN SetState(STATE_DONE) /\ mainpc' = "join"
               ELSE UNCHANGED <<state, hist>> /\ mainpc' = "render"
       ELSE /\ x' = P01 /\ y' = P01 /\ t' = -1
            /\ mainpc' = "render"
            /\ UNCHANGED <<state, hist>>
    /\ UNCHANGED <<t0, record_thread, frame, exitcode, start>>
    /\ UNCHANGED thrVars
    /\ UNCHANGED envVars

\* (mutant of Join) the main thread does not wait for the thread to finish
JoinNoWait ==
    /\ mainpc = "join"
    /\ record_thread' = 0
    /\ mainpc' = "render"
    /\ UNCHANGED <<state, t0, x, y, t, frame, exitcode, hist, start>>
    /\ UNCHANGED thrVars
    /\ UNCHANGED envVars

\* record_thread.join(): returns once the thread has finished; join() on a
\* thread that is not joinable throws, which nothing catches
Join ==
    /\ mainpc = "join"
    /\ IF record_thread = 0
       THEN /\ exitcode' = "terminate"
            /\ mainpc' = "done"
            /\ UNCHANGED record_thread
       ELSE /\ ~Alive(threads[record_thread])
            /\ record_thread' = 0
            /\ mainpc' = "render"
            /\ UNCHANGED exitcode
    /\ UNCHANGED <<state, t0, x, y, t, frame, hist, start>>
    /\ UNCHANGED thrVars
    /\ UNCHANGED envVars

\* clear, the switch on state, SDL_RenderPresent; the locals go out of scope.
\* The dot is drawn in STATE_PRE and STATE_RECORDING only.
Render ==
    /\ mainpc = "render"
    /\ frame' = [st |-> state,
                 x |-> IF state \in {STATE_PRE, STATE_RECORDING} THEN x ELSE -1,
                 y |-> IF state \in {STATE_PRE, STATE_RECORDING} THEN y ELSE -1,
                 t |-> t,
                 alive |-> NumAlive]
    /\ x' = -1 /\ y' = -1 /\ t' = -1
    /\ mainpc' = "loop"
    /\ UNCHANGED <<state, t0, record_thread, exitcode, hist, start>>
    /\ UNCHANGED thrVars
    /\ UNCHANGED envVars

\* return 0: record_thread is destroyed; the destructor of a joinable
\* std::thread calls std::terminate
Return ==
    /\ mainpc = "return"
    /\ exitcode' = IF record_thread # 0 THEN "terminate" ELSE "exit0"
    /\ mainpc' = "done"
    /\ UNCHANGED <<state, t0, record_thread, x, y, t, frame, hist, start>>
    /\ UNCHANGED thrVars
    /\ UNCHANGED envVars

\* --------------------------------------------------------- capture thread
\* (mutant of pxc_verify) every status other than success is a failure
pxc_verify_strict(ret) ==
    IF ret # PXC_STATUS_NO_ERROR THEN [ok |-> FALSE, box |-> "error"]
    ELSE [ok |-> TRUE, box |-> "none"]

\* bool pxc_verify(pxcStatus ret, msg): the result and the message box shown
pxc_verify(ret) ==
    IF ret < PXC_STATUS_NO_ERROR THEN [ok |-> FALSE, box |-> "error"]
    ELSE IF ret > PXC_STATUS_NO_ERROR THEN [ok |-> TRUE, box |-> "warning"]
    ELSE [ok |-> TRUE, box |-> "none"]

ThreadStep(i, th) ==
    /\ exitcode = "running"
    /\ i \in DOMAIN threads
    /\ threads' = [threads EXCEPT ![i] = th]

\* (mutant of Check) the thread releases the frame once more when it leaves
\* the loop by its test
CheckReleasesOnExit(i) ==
    /\ i \in DOMAIN threads
    /\ threads[i].pc = "check"
    /\ threads[i].seen = STATE_RECORDING => nAcq < MaxAcquire
    /\ ThreadStep(i, [threads[i] EXCEPT
            !.obs = threads[i].seen,
            !.pc = IF threads[i].seen = STATE_RECORDING THEN "call" ELSE "done"])
    /\ nRel' = IF threads[i].seen = STATE_RECORDING THEN nRel ELSE nRel + 1
    /\ UNCHANGED <<nAcq, late>>
    /\ UNCHANGED mainVars
    /\ UNCHANGED envVars

\* while (*pstate == STATE_RECORDING): the read of the shared state
Check(i) ==
    /\ i \in DOMAIN threads
    /\ threads[i].pc = "check"
    /\ threads[i].seen = STATE_RECORDING => nAcq < MaxAcquire
    /\ ThreadStep(i, [threads[i] EXCEPT
            !.obs = threads[i].seen,
            !.pc = IF threads[i].seen = STATE_RECORDING THEN "call" ELSE "done"])
    /\ UNCHANGED <<nAcq, nRel, late>>
    /\ UNCHANGED mainVars
    /\ UNCHANGED envVars

\* g_sm->AcquireFrame(true) is called and blocks
AcquireCall(i) ==
    /\ i \in DOMAIN threads
    /\ threads[i].pc = "call"
    /\ ThreadStep(i, [threads[i] EXCEPT !.pc = "wait"])
    /\ nAcq' = nAcq + 1
    /\ late' = IF state # STATE_RECORDING THEN late + 1 ELSE late
    /\ UNCHANGED nRel
    /\ UNCHANGED mainVars
    /\ UNCHANGED envVars

\* (mutant of AcquireReturn) the result of pxc_verify is not tested: no break
AcquireReturnNoBreak(i, ret) ==
    /\ i \in DOMAIN threads
    /\ threads[i].pc = "wait"
    /\ exitcode = "running"
    /\ threads' = [threads EXCEPT ![i] = [threads[i] EXCEPT
            !.ret = ret, !.box = pxc_verify(ret).box, !.pc = "release"]]
    /\ UNCHANGED <<nAcq, nRel, late>>
    /\ UNCHANGED mainVars
    /\ UNCHANGED envVars

\* (mutant of AcquireReturn) on a fatal status the thread itself ends the
\* recording: *pstate = STATE_DONE before the break
AcquireReturnSetsDone(i, ret) ==
    /\ i \in DOMAIN threads
    /\ threads[i].pc = "wait"
    /\ ThreadStep(i, [threads[i] EXCEPT
            !.ret = ret,
            !.box = pxc_verify(ret).box,
            !.pc = IF pxc_verify(ret).ok THEN "release" ELSE "done"])
    /\ IF pxc_verify(ret).ok
       THEN UNCHANGED <<state, hist>>
       ELSE SetState(STATE_DONE)
    /\ UNCHANGED <<nAcq, nRel, late>>
    /\ UNCHANGED <<t0, record_thread, mainpc, x, y, t, frame, exitcode, start>>
    /\ UNCHANGED envVars

\* AcquireFrame returns ret; if (!pxc_verify(ret, ...)) break;
AcquireReturn(i, ret) ==
    /\ i \in DOMAIN threads
    /\ threads[i].pc = "wait"
    /\ ThreadStep(i, [threads[i] EXCEPT
            !.ret = ret,
            !.box = pxc_verify(ret).box,
            !.pc = IF pxc_verify(ret).ok THEN "release" ELSE "done"])
    /\ UNCHANGED <<nAcq, nRel, late>>
    /\ UNCHANGED mainVars
    /\ UNCHANGED envVars

\* g_sm->ReleaseFrame()
ReleaseFrame(i) ==
    /\ i \in DOMAIN threads
    /\ threads[i].pc = "release"
    /\ ThreadStep(i, [threads[i] EXCEPT !.pc = "check"])
    /\ nRel' = nRel + 1
    /\ UNCHANGED <<nAcq, late>>
    /\ UNCHANGED mainVars
    /\ UNCHANGED envVars

\* (mutant of Visible) the lambda holds a copy of state, not a pointer to
\* it: no write of the main thread reaches the thread
VisibleByValue(i) ==
    /\ i \in DOMAIN threads
    /\ Alive(threads[i])
    /\ threads[i].seen # state
    /\ ThreadStep(i, threads[i])
    /\ UNCHANGED <<nAcq, nRel, late>>
    /\ UNCHANGED mainVars
    /\ UNCHANGED envVars

\* a write of the main thread to state becomes visible to thread i
Visible(i) ==
    /\ i \in DOMAIN threads
    /\ Alive(threads[i])
    /\ threads[i].seen # state
    /\ ThreadStep(i, [threads[i] EXCEPT !.seen = state])
    /\ UNCHANGED <<nAcq, nRel, late>>
    /\ UNCHANGED mainVars
    /\ UNCHANGED envVars

\* ------------------------------------------------------------------ specs
Next ==
    \/ \E ev \in EventTypes : PushEvent(ev)
    \/ \E n \in TimePoints : Tick(n)
    \/ LoopTest
    \/ PollNone
    \/ KeyUpPre
    \/ Spawn
    \/ KeyUpDone
    \/ KeyUpIgnored
    \/ QuitEvent
    \/ OtherEvent
    \/ Update
    \/ Join
    \/ Render
    \/ Return
    \/ \E i \in DOMAIN threads : Check(i)
    \/ \E i \in DOMAIN threads : AcquireCall(i)
    \/ \E i \in DOMAIN threads : \E ret \in PxcStatuses : AcquireReturn(i, ret)
    \/ \E i \in DOMAIN threads : ReleaseFrame(i)
    \/ \E i \in DOMAIN threads : Visible(i)

Spec == Init /\ [][Next]_vars

\* The choreography on a fine time grid: the run starts where Spec stands right
\* after the key-up of the first frame was handled and the thread spawned
\* (PushEvent, LoopTest, KeyUpPre, Spawn), no further event arrives, and the
\* clock is looked at around every segment boundary.
Boundaries == {Sec(3), Sec(5), Sec(8), Sec(10)}
FinePoints ==
    (0 .. Window)
    \cup {b + k : b \in Boundaries, k \in (0 - Window) .. Window}
    \cup {Sec(1), Sec(4), Sec(6), Sec(9)}

InitPos ==
    /\ state = STATE_RECORDING
    /\ t0 = 0
    /\ record_thread = 1
    /\ threads = <<[pc |-> "check", seen |-> STATE_RECORDING, obs |-> -1,
                    ret |-> 0, box |-> "none"]>>
    /\ queue = <<>>
    /\ mainpc = "poll"
    /\ x = -1 /\ y = -1 /\ t = -1
    /\ frame = NoFrame
    /\ now = 0
    /\ exitcode = "running"
    /\ nAcq = 0 /\ nRel = 0 /\ late = 0
    /\ hist = <<STATE_PRE, STATE_RECORDING>>
    /\ start = 0
    /\ script = 1

NextPos ==
    \/ \E n \in FinePoints : Tick(n)
    \/ LoopTest
    \/ PollNone
    \/ Update
    \/ Join
    \/ Render
    \/ \E i \in DOMAIN threads : Check(i)
    \/ \E i \in DOMAIN threads : AcquireCall(i)
    \/ \E i \in DOMAIN threads : \E ret \in PxcStatuses : AcquireReturn(i, ret)
    \/ \E i \in DOMAIN threads : ReleaseFrame(i)
    \/ \E i \in DOMAIN threads : Visible(i)

SpecPos == InitPos /\ [][NextPos]_vars

\* --------------------------------------------------------------- fairness
\* a step of the main thread
MainStep ==
    \/ LoopTest \/ PollNone \/ KeyUpPre \/ Spawn \/ KeyUpDone \/ KeyUpIgnored
    \/ QuitEvent \/ OtherEvent \/ Update \/ Join \/ Render \/ Return
\* a step of the capture thread's own code
ThreadRun ==
    \E i \in DOMAIN threads : Check(i) \/ AcquireCall(i) \/ ReleaseFrame(i)
\* a blocking AcquireFrame returns
AcquireReturns ==
    \E i \in DOMAIN threads : \E ret \in PxcStatuses : AcquireReturn(i, ret)
\* a write to state reaches the thread
Sees == \E i \in DOMAIN threads : Visible(i)

\* the recording under fair scheduling: both threads keep running, every
\* AcquireFrame returns, every write to state becomes visible to the thread;
\* the clock is under no obligation
SpecFair ==
    /\ SpecPos
    /\ WF_vars(MainStep)
    /\ WF_vars(ThreadRun)
    /\ WF_vars(AcquireReturns)
    /\ WF_vars(Sees)


\* ---------------------------------------------------------------- startup
\* main before the loop: each step either passes to the next or returns.
\* mainpc names the step; after a failing step it stays there and exitcode is
\* the value returned.
TEXT_COUNT == 4

StartupSteps == <<"sdl_init", "ttf_init", "img_init", "init_realsense", "window",
                  "font", "texts", "img_load", "texture">>

ExitName(n) ==
    CASE n = 0 -> "exit0" [] n = 1 -> "exit1" [] n = 2 -> "exit2" [] n = 3 -> "exit3"
      [] n = 4 -> "exit4" [] n = 5 -> "exit5" [] n = 6 -> "exit6"

\* (mutant of ReturnCode) the window failure returns the device's code
ReturnCodeWindowAsDevice(step) ==
    CASE step = "sdl_init" -> 1
      [] step = "ttf_init" -> 1
      [] step = "img_init" -> 1
      [] step = "init_realsense" -> 2
      [] step = "window" -> 2
      [] step = "font" -> 4
      [] step = "texts" -> 5
      [] step = "img_load" -> 6
      [] step = "texture" -> 6

\* the value of the return statement under each startup check
ReturnCode(step) ==
    CASE step = "sdl_init" -> 1
      [] step = "ttf_init" -> 1
      [] step = "img_init" -> 1
      [] step = "init_realsense" -> 2
      [] step = "window" -> 3
      [] step = "font" -> 4
      [] step = "texts" -> 5
      [] step = "img_load" -> 6
      [] step = "texture" -> 6

\* bool sdl_verify(int ret, msg), bool ttf_verify(int ret, msg)
sdl_verify(ret) == ret = 0
ttf_verify(ret) == ret = 0

\* a bool passed as the int ret (p == nullptr)
BoolInt(b) == IF b THEN 1 ELSE 0

\* bool init_realsense(): the sense manager and the pref path exist and the
\* four status checks pass
init_realsense(created, path, s1, s2, s3, s4) ==
    /\ created
    /\ path
    /\ pxc_verify(s1).ok
    /\ pxc_verify(s2).ok
    /\ pxc_verify(s3).ok
    /\ pxc_verify(s4).ok

\* mktxt: nullptr when the surface is null; else the texture, null or not
mktxt(surfNull, texNull) ==
    IF ~ttf_verify(BoolInt(surfNull)) THEN "null"
    ELSE IF texNull THEN "null" ELSE "tex"

\* if (!check) return code; else go on to the next step
StartupStep(step, ok, next) ==
    /\ mainpc = step
    /\ exitcode = "running"
    /\ IF ok
       THEN mainpc' = next /\ UNCHANGED exitcode
       ELSE exitcode' = ExitName(ReturnCode(step)) /\ UNCHANGED mainpc
    /\ UNCHANGED <<state, t0, record_thread, x, y, t, frame, hist, start>>
    /\ UNCHANGED thrVars
    /\ UNCHANGED envVars

SdlInit(ret) == StartupStep("sdl_init", sdl_verify(ret), "ttf_init")
TtfInit(ret) == StartupStep("ttf_init", ttf_verify(ret), "img_init")
ImgInit(isInitPngSet) ==
    StartupStep("img_init", sdl_verify(IF isInitPngSet THEN 0 ELSE -1), "init_realsense")
InitRealsense(created, path, s1, s2, s3, s4) ==
    StartupStep("init_realsense", init_realsense(created, path, s1, s2, s3, s4), "window")
CreateWindow(ret) == StartupStep("window", sdl_verify(ret), "font")
OpenFont(isNull) == StartupStep("font", ttf_verify(BoolInt(isNull)), "texts")
MakeTexts(surfNull, texNull) ==
    StartupStep("texts",
                \A i \in 1 .. TEXT_COUNT : mktxt(surfNull[i], texNull[i]) # "null",
                "img_load")
LoadImage(isNull) == StartupStep("img_load", sdl_verify(BoolInt(isNull)), "texture")
CreateTexture(isNull) == StartupStep("texture", sdl_verify(BoolInt(isNull)), "loop")

InitStart ==
    /\ state = STATE_PRE
    /\ t0 = 0
    /\ record_thread = 0
    /\ threads = <<>>
    /\ queue = <<>>
    /\ mainpc = "sdl_init"
    /\ x = -1 /\ y = -1 /\ t = -1
    /\ frame = NoFrame
    /\ now = 0
    /\ exitcode = "running"
    /\ nAcq = 0 /\ nRel = 0 /\ late = 0
    /\ hist = <<STATE_PRE>>
    /\ start = -1
    /\ script = 0

Startup ==
    \/ \E ret \in {0, -1} : SdlInit(ret)
    \/ \E ret \in {0, -1} : TtfInit(ret)
    \/ \E b \in BOOLEAN : ImgInit(b)
    \/ /\ mainpc = "init_realsense"
       /\ \E created, path \in BOOLEAN : \E s1, s2, s3, s4 \in PxcStatuses :
            InitRealsense(created, path, s1, s2, s3, s4)
    \/ \E ret \in {0, -1} : CreateWindow(ret)
    \/ \E b \in BOOLEAN : OpenFont(b)
    \/ /\ mainpc = "texts"
       /\ \E surfNull, texNull \in [1 .. TEXT_COUNT -> BOOLEAN] :
            MakeTexts(surfNull, texNull)
    \/ \E b \in BOOLEAN : LoadImage(b)
    \/ \E b \in BOOLEAN : CreateTexture(b)

NextStart == Startup \/ Next

\* the whole program, from the first statement of main
SpecStart == InitStart /\ [][NextStart]_vars

\* ================================================================= claims
IRDQ == <<STATE_PRE, STATE_RECORDING, STATE_DONE, STATE_QUIT>>
IRQ == <<STATE_PRE, STATE_RECORDING, STATE_QUIT>>
Fatal == \E i \in DOMAIN threads : threads[i].ret < PXC_STATUS_NO_ERROR

\* C1: when the process has left the main loop and exited, every capture thread
\* that was spawned has been joined (record_thread is not joinable any more and
\* the exit is the normal return 0).
C1_JoinedBeforeExit ==
    mainpc = "done" => (record_thread = 0 /\ exitcode = "exit0")

\* C2: at most one capture thread is alive and at most one is ever spawned; a
\* thread is spawned only right after the Idle->Recording transition of a key-up,
\* whatever key-ups arrive later or in the same drain.
C2_OneThread ==
    /\ [](NumAlive <= 1 /\ Len(threads) <= 1)
    /\ [][Len(threads') > Len(threads) =>
            /\ threads = <<>>
            /\ state = STATE_RECORDING
            /\ hist = <<STATE_PRE, STATE_RECORDING>>]_vars

\* C2 witness: the thread is running and a drain has several key-ups pending
C2_Witness ==
    /\ NumAlive = 1
    /\ state = STATE_RECORDING
    /\ mainpc = "poll"
    /\ Len(queue) >= 2
    /\ \A k \in DOMAIN queue : queue[k] = SDL_KEYUP

\* C3: a Done frame is never rendered while a capture thread runs: state = Done
\* is written before the join, and a frame rendered in Done, like every step
\* from the render of the transition's frame on, finds no thread alive.
C3_DoneAfterJoin ==
    /\ frame.st = STATE_DONE => frame.alive = 0
    /\ mainpc = "join" => state = STATE_DONE
    /\ (mainpc = "render" /\ state = STATE_DONE) => NumAlive = 0

\* C3 witness: a Done frame was rendered after a thread that acquired frames
C3_Witness ==
    /\ frame.st = STATE_DONE
    /\ nAcq >= 1
    /\ Len(threads) = 1

\* C4 as stated: the script [key-up, wait 10 s, key-up, quit] always ends with
\* the state sequence Idle, Recording, Done, Quit.
C4_ScriptSequence ==
    (script = 3 /\ state = STATE_QUIT) => hist = IRDQ

\* the transition table: every change of state is one of its rows
TableStep ==
    state' # state =>
        \/ /\ state = STATE_PRE /\ state' = STATE_RECORDING
           /\ mainpc = "poll" /\ queue # <<>> /\ Head(queue) = SDL_KEYUP
        \/ /\ state = STATE_RECORDING /\ state' = STATE_DONE
           /\ mainpc = "update" /\ now - start >= Sec(10)
        \/ /\ state = STATE_DONE /\ state' = STATE_QUIT
           /\ mainpc = "poll" /\ queue # <<>> /\ Head(queue) = SDL_KEYUP
        \/ /\ state' = STATE_QUIT
           /\ mainpc = "poll" /\ queue # <<>> /\ Head(queue) = SDL_QUIT

\* a key-up polled while Recording changes nothing but the queue
KeyUpWhileRecording ==
    (/\ mainpc = "poll" /\ queue # <<>> /\ Head(queue) = SDL_KEYUP
     /\ state = STATE_RECORDING /\ queue' = Tail(queue))
    => UNCHANGED <<state, t0, record_thread, threads, mainpc, hist, start>>

\* C4 amended: state changes only along the transition table and a key-up while
\* Recording changes nothing; the script ends with Idle, Recording, Done, Quit
\* when the Recording->Done frame came before the quit event was polled, and
\* with Idle, Recording, Quit when the quit event is polled while still Recording.
C4_TableAndScript ==
    /\ [][TableStep]_vars
    /\ [][KeyUpWhileRecording]_vars
    /\ []((script = 3 /\ state = STATE_QUIT) => hist \in {IRDQ, IRQ})
    /\ [][(script = 3 /\ state = STATE_DONE /\ state' = STATE_QUIT) => hist' = IRDQ]_vars

\* C4 witness: the script ran to its end through Done
C4_Witness ==
    script = 3 /\ state = STATE_QUIT /\ hist = IRDQ /\ mainpc = "done"

\* C5: a frame evaluated while Recording takes Recording->Done exactly when the
\* elapsed time since the recording started is >= 10000 ms: never below, and
\* always in the first frame at or above.
C5_DoneAtTenSeconds ==
    /\ [][(state = STATE_RECORDING /\ mainpc = "update" /\ mainpc' # "update") =>
            (state' = STATE_DONE <=> now - start >= Sec(10))]_vars
    /\ [][(state = STATE_RECORDING /\ state' = STATE_DONE) =>
            now - start >= Sec(10)]_vars

\* C5 witness: the frame before was evaluated at 9999 ms and stayed in Recording,
\* this one at exactly 10000 ms and switched to Done
C5_Witness ==
    /\ mainpc = "join"
    /\ t = Sec(10)
    /\ frame.st = STATE_RECORDING
    /\ frame.t = Sec(10) - 1

Abs(a) == IF a < 0 THEN 0 - a ELSE a
InRange(p) == P01 <= p /\ p <= P99
\* the change of a coordinate in one ms on the steepest segment
Tolerance == (P99 - P01) \div Sec(2)

\* C6: while Recording, the position computed for a frame lies within
\* [0.01,0.99] x [0.01,0.99], and at the boundaries t = 3, 5, 8 s the position
\* equals, within tolerance, the position of the frame 1 ms before.
C6_RangeAndContinuity ==
    (mainpc = "render" /\ state = STATE_RECORDING) =>
        /\ InRange(x) /\ InRange(y)
        /\ (/\ frame.st = STATE_RECORDING
            /\ t \in {Sec(3), Sec(5), Sec(8)}
            /\ frame.t = t - 1)
           => (Abs(x - frame.x) <= Tolerance /\ Abs(y - frame.y) <= Tolerance)

\* the four-segment choreography table
TableX(tt) ==
    IF tt < Sec(3) THEN lerp(tt, P01, P99, Sec(0), Sec(3))
    ELSE IF tt < Sec(5) THEN P99
    ELSE IF tt < Sec(8) THEN lerp(tt, P99, P01, Sec(5), Sec(8))
    ELSE P01
TableY(tt) ==
    IF tt < Sec(3) THEN P01
    ELSE IF tt < Sec(5) THEN lerp(tt, P01, P99, Sec(3), Sec(5))
    ELSE IF tt < Sec(8) THEN P99
    ELSE lerp(tt, P99, P01, Sec(8), Sec(10))

\* C7: every frame rendered while Recording shows the target at the position
\* the four-segment table gives for the frame's elapsed time.
C7_RenderedIsTable ==
    frame.st = STATE_RECORDING =>
        (frame.x = TableX(frame.t) /\ frame.y = TableY(frame.t))

C9_WarningContinues ==
    /\ [](\A i \in DOMAIN threads :
            threads[i].ret > PXC_STATUS_NO_ERROR => threads[i].box = "warning")
    /\ [][\A i \in DOMAIN threads :
            (threads[i].pc = "wait" /\ threads'[i].pc # "wait") =>
                /\ threads'[i].ret >= PXC_STATUS_NO_ERROR => threads'[i].pc = "release"
                /\ threads'[i].ret < PXC_STATUS_NO_ERROR => threads'[i].pc = "done"]_vars
    /\ [][\A i \in DOMAIN threads :
            (threads[i].pc = "release" /\ threads'[i].pc # "release") =>
                (threads'[i].pc = "check" /\ nRel' = nRel + 1)]_vars

\* C9 witness: after a warning the thread released the frame, checked the state
\* and is in its next acquire call
C9_Witness ==
    \E i \in DOMAIN threads :
        /\ threads[i].ret > PXC_STATUS_NO_ERROR
        /\ threads[i].pc = "wait"
        /\ nAcq = 2 /\ nRel = 1

\* C10: no acquire is started after a check that observed a state other than
\* Recording, and at most one acquire is started after the state has left
\* Recording.
C10_AtMostOneLateAcquire ==
    /\ \A i \in DOMAIN threads :
            threads[i].pc \in {"call", "wait"} => threads[i].obs = STATE_RECORDING
    /\ late <= 1

StartupStepSet == {StartupSteps[k] : k \in DOMAIN StartupSteps}
FailureCodes == {"exit1", "exit2", "exit3", "exit4", "exit5", "exit6"}
\* main returned from a startup step
StartupFailed == mainpc \in StartupStepSet /\ exitcode # "running"
\* nothing of the main loop has happened
LoopNotStarted ==
    /\ state = STATE_PRE /\ hist = <<STATE_PRE>>
    /\ frame = NoFrame /\ threads = <<>> /\ record_thread = 0
\* the steps whose failure ends the process with exit code c
StepsWithCode(c) == {s \in StartupStepSet : ExitName(ReturnCode(s)) = c}

\* C11 as stated: a failing startup step ends the process before the main loop
\* with an exit code in 1..6 that no other startup step produces; exit code 0
\* is the normal return after the loop.
C11_DistinctCodes ==
    /\ StartupFailed =>
        /\ exitcode \in FailureCodes
        /\ LoopNotStarted
        /\ StepsWithCode(exitcode) = {mainpc}
    /\ exitcode = "exit0" => (mainpc = "done" /\ state = STATE_QUIT)

\* the exit code of each failing step, step by step
GroupCode ==
    [s \in StartupStepSet |->
        IF s \in {"sdl_init", "ttf_init", "img_init"} THEN "exit1"
        ELSE IF s = "init_realsense" THEN "exit2"
        ELSE IF s = "window" THEN "exit3"
        ELSE IF s = "font" THEN "exit4"
        ELSE IF s = "texts" THEN "exit5"
        ELSE "exit6"]

\* C11 amended: a failing startup step ends the process before the main loop
\* with an exit code in 1..6: 1 for the SDL, TTF and image-library inits, 2 for
\* the capture device, 3 for the window, 4 for the font, 5 for the texts, 6 for
\* the target image and the target texture; exit code 0 is the normal return
\* after the loop.
C11_GroupCodes ==
    /\ StartupFailed =>
        /\ exitcode \in FailureCodes
        /\ LoopNotStarted
        /\ exitcode = GroupCode[mainpc]
    /\ exitcode = "exit0" => (mainpc = "done" /\ state = STATE_QUIT)
    /\ (mainpc \in StartupStepSet /\ exitcode = "running") => LoopNotStarted

\* C11 witness: the last startup step failed with the code the step before it
\* would also have produced
C11_Witness ==
    /\ mainpc = "texture" /\ exitcode = "exit6"
    /\ StepsWithCode("exit6") = {"img_load", "texture"}

\* the position as a function of the state and the elapsed ms alone
SlopeX == (P99 - P01) \div Sec(3)
SlopeY == (P99 - P01) \div Sec(2)
PosX(st, tt) ==
    IF st # STATE_RECORDING THEN P01
    ELSE IF tt < Sec(3) THEN P01 + SlopeX * tt
    ELSE IF Sec(5) <= tt /\ tt < Sec(8) THEN P99 - SlopeX * (tt - Sec(5))
    ELSE P01
PosY(st, tt) ==
    IF st # STATE_RECORDING THEN P01
    ELSE IF Sec(3) <= tt /\ tt < Sec(5) THEN P01 + SlopeY * (tt - Sec(3))
    ELSE IF Sec(8) <= tt /\ tt < Sec(10) THEN P99 - SlopeY * (tt - Sec(8))
    ELSE P01

\* C12: the position a frame computes is a function of the frame's state and
\* elapsed time alone, whatever the frame before showed: two frames with the
\* same state and elapsed time get the same position, and in Idle and Done the
\* position is the constant (0.01, 0.01).
C12_PositionFunction ==
    /\ mainpc \in {"join", "render"} =>
        (x = PosX(state, t) /\ y = PosY(state, t))
    /\ (mainpc \in {"join", "render"} /\ state \in {STATE_PRE, STATE_DONE}) =>
        (x = P01 /\ y = P01)
    /\ frame.st \in {STATE_PRE, STATE_RECORDING} =>
        (frame.x = PosX(frame.st, frame.t) /\ frame.y = PosY(frame.st, frame.t))
    /\ (mainpc = "render" /\ state \in {STATE_PRE, STATE_RECORDING}
            /\ frame.st = state /\ frame.t = t) =>
        (x = frame.x /\ y = frame.y)

\* C12 witness: a Recording frame in the last segment computed right after a
\* frame that showed the target elsewhere
C12_Witness ==
    /\ mainpc = "render" /\ state = STATE_RECORDING
    /\ t = Sec(10) - 1
    /\ frame.st = STATE_RECORDING /\ frame.t = 1
    /\ frame.x # x /\ frame.y # y
    /\ x = P01

\* the main thread is inside main and has a next step
MainCanStep == ENABLED MainStep

ThreadMoved ==
    \/ Len(threads') = Len(threads) /\ threads' # threads
    \/ nAcq' # nAcq
    \/ nRel' # nRel

\* C14: no step of the capture thread changes state or t0: a step in which the
\* thread moves leaves both as they were, and a step that changes either is a
\* step of the main thread in which no thread moves.
C14_ThreadWritesNothing ==
    /\ [][ThreadMoved => UNCHANGED <<state, t0, hist, start>>]_vars
    /\ [][(ThreadRun \/ AcquireReturns \/ Sees) => UNCHANGED <<state, t0>>]_vars
    /\ [][(state' # state \/ t0' # t0) => (~ThreadMoved /\ mainpc' # mainpc)]_vars

\* C14 witness: the thread went through its whole loop, fatal exit included,
\* while the recording that started at tick 1 is still on
C14_Witness ==
    /\ state = STATE_RECORDING /\ t0 = 1
    /\ nAcq = 2 /\ nRel = 1
    /\ Fatal
    /\ \A i \in DOMAIN threads : threads[i].pc = "done"

\* C15: when the capture thread is spawned, state = Recording and t0 have
\* already been written; the thread starts seeing Recording and no thread ever
\* sees or observes Idle.
C15_WritesBeforeSpawn ==
    /\ mainpc = "spawn" =>
        /\ state = STATE_RECORDING
        /\ hist = <<STATE_PRE, STATE_RECORDING>>
        /\ start >= 0 /\ t0 = start
    /\ threads # <<>> => (state # STATE_PRE /\ start >= 0 /\ t0 = start)
    /\ \A i \in DOMAIN threads :
        /\ threads[i].seen # STATE_PRE
        /\ threads[i].obs # STATE_PRE
        /\ threads[i].pc # "check" => threads[i].obs # -1

\* C15 witness: the thread, spawned for a recording that started at tick 1,
\* made its first loop test and found Recording
C15_Witness ==
    /\ t0 = 1
    /\ nAcq = 0
    /\ \E i \in DOMAIN threads :
            threads[i].pc = "call" /\ threads[i].obs = STATE_RECORDING

\* the step Idle->Recording
IdleToRecording == state = STATE_PRE /\ state' = STATE_RECORDING

\* C16: t0 is written in the step Idle->Recording, with the tick count of that
\* moment, and in no other step; before that step it has its initial value 0,
\* after it the value written, to the end of the run.
C16_StartTimeWrittenOnce ==
    /\ [][IdleToRecording => (t0' = now /\ start' = now)]_vars
    /\ [][~IdleToRecording => UNCHANGED <<t0, start>>]_vars
    /\ [](state = STATE_PRE => (t0 = 0 /\ start = -1))
    /\ [](start >= 0 => (t0 = start /\ STATE_RECORDING \in {hist[k] : k \in DOMAIN hist}))

\* C16 witness: a recording started at tick 1 ran through Done to the exit, a
\* key-up being polled on the way, and t0 is still 1
C16_Witness ==
    /\ t0 = 1 /\ now = MaxTime
    /\ hist = IRDQ
    /\ exitcode = "exit0"

\* the step in which the event loop of a frame ends
DrainEnds == mainpc = "poll" /\ mainpc' = "update"
\* a step that takes an event off the queue
EventTaken == Len(queue') < Len(queue)

\* C17 as stated: in every frame the event loop ends, and the update and the
\* render follow, only when no event is pending: every event that was
\* pending has been processed.
C17_DrainsAll ==
    [][DrainEnds => queue' = <<>>]_vars

\* C17 amended: events are taken in order, only by the event loop; the event
\* loop of a frame ends either with no event pending or on the event that sets
\* state = Quit; in that case the events still pending are never taken: the
\* frame is the last one.
C17_DrainsAllUnlessQuit ==
    /\ [][DrainEnds => (queue' = <<>> \/ (state # STATE_QUIT /\ state' = STATE_QUIT))]_vars
    /\ [][EventTaken =>
            (mainpc = "poll" /\ queue' = Tail(queue) /\ state # STATE_QUIT)]_vars
    /\ [](state = STATE_QUIT => mainpc \notin {"poll", "spawn", "join"})

\* C17 witness: the last frame is rendered with an event pending that the
\* event loop left behind
C17_Witness ==
    /\ mainpc = "render" /\ state = STATE_QUIT
    /\ hist = IRDQ
    /\ queue # <<>>

\* threads inside an acquire or holding the frame it returned
Holding == {i \in DOMAIN threads : threads[i].pc \in {"wait", "release"}}
\* threads whose last acquire failed
Failed == {i \in DOMAIN threads : threads[i].ret < PXC_STATUS_NO_ERROR}

\* C18: acquire and release are paired: every release follows, in the same
\* thread, an acquire that returned without fatal status and has not been
\* released yet; after a fatal acquire the thread makes no release.
C18_AcquireReleasePaired ==
    /\ [](nAcq = nRel + Cardinality(Holding) + Cardinality(Failed))
    /\ [](\A i \in DOMAIN threads :
            threads[i].pc = "release" => threads[i].ret >= PXC_STATUS_NO_ERROR)
    /\ [][nRel' # nRel =>
            /\ nRel' = nRel + 1
            /\ nAcq' = nAcq
            /\ nAcq >= nRel + 1
            /\ \E i \in DOMAIN threads :
                /\ threads[i].pc = "release"
                /\ threads[i].ret >= PXC_STATUS_NO_ERROR
                /\ threads'[i].pc = "check"]_vars
    /\ [][Failed # {} => (nRel' = nRel /\ Failed' = Failed)]_vars

\* C18 witness: one acquire was released, the next one failed fatally and is
\* left without a release, the run having gone on to Done
C18_Witness ==
    /\ nAcq = 2 /\ nRel = 1
    /\ Failed # {} /\ Holding = {}
    /\ state = STATE_DONE /\ mainpc = "poll"

\* C19: state moves forward only, in the order Idle < Recording < Done < Quit,
\* and Quit is terminal: once state = Quit it stays Quit, no event is taken off
\* the queue, no thread is spawned, t0 is not written, and the main thread is
\* never again in the event loop, at the spawn or at the join.
C19_ForwardOnly ==
    /\ [][state' >= state]_vars
    /\ [](\A k \in 1 .. (Len(hist) - 1) : hist[k] < hist[k + 1])
    /\ [][state = STATE_QUIT =>
            /\ state' = STATE_QUIT
            /\ Len(queue') >= Len(queue)
            /\ Len(threads') = Len(threads)
            /\ UNCHANGED <<t0, hist, record_thread>>]_vars
    /\ [](state = STATE_QUIT =>
            mainpc \in {"update", "render", "loop", "return", "done"})

\* C19 witness: the run was quit from Idle and has ended with two key-ups
\* pending that were never handled
C19_Witness ==
    /\ hist = <<STATE_PRE, STATE_QUIT>>
    /\ mainpc = "done"
    /\ queue = <<SDL_KEYUP, SDL_KEYUP>>
    /\ threads = <<>>

====
